---- MODULE Spec2Model ----
(***************************************************************************)
(* Model of the self-updating launcher: main() of src/main.c and           *)
(* update_from_repo() of src/launchpad.h.  Every backend (libgit2) call is *)
(* one step; its outcome (success or an error code) is an input.  The      *)
(* repository on disk persists between runs, the process state does not.   *)
(***************************************************************************)
EXTENDS Integers, Sequences, FiniteSets, TLC

VARIABLES
    entry,        \* "main" (src/main.c) or "lib" (update_from_repo)
    run,          \* number of the current run / call
    pc,           \* position of the original process
    ret,          \* exit status of the process, or value returned by update_from_repo
    dirState,     \* target_path on disk: "missing", "unreadable", "plain", "repo"
    head,         \* commit HEAD points at (0: unborn / no repository)
    wt,           \* tree in the working directory
    index,        \* tree in the index
    odb,          \* commits present in the local object database
    upstream,     \* what the remote advertises: the FETCH_HEAD a fetch produces
    fetchhead,    \* the local FETCH_HEAD
    oid,          \* the local 'git_oid oid' filled in by fetchhead_cb
    oidWritten,   \* TRUE when fetchhead_cb copied into oid in this run
    commit,       \* the annotated commit (0: NULL)
    analysis,     \* result of git_merge_analysis, a set of flags
    handle,       \* TRUE while the opened git_repository has had no cleanup call
    cleanups,     \* calls of git_repository_state_cleanup in this run
    gitInit,      \* outstanding git_libgit2_init calls of the process
    failed,       \* steps that reported an error in this run
    log,          \* calls made in this run, in order
    calls,        \* how many times this run made each call
    pid,          \* fork()'s return value in the original process
    cpc,          \* position of the forked process
    cret,         \* exit status of the forked process
    start,        \* head, wt, index and dirState when this run started
    prev,         \* how the previous run ended
    cfg,          \* what launcher.toml held when this run read it
    cbAbort,      \* TRUE when a progress callback cancelled the fetch of this run
    fe            \* an enumeration of fetch heads, one callback call at a time

vars == <<entry, run, pc, ret, dirState, head, wt, index, odb, upstream,
          fetchhead, oid, oidWritten, commit, analysis, handle, cleanups,
          gitInit, failed, log, calls, pid, cpc, cret, start, prev, cfg,
          cbAbort, fe>>

disk == <<dirState, head, wt, index, odb, fetchhead>>
git == <<oid, oidWritten, commit, analysis, cbAbort>>
child == <<pid, cpc, cret>>
hist == <<entry, run, upstream, start, prev, cfg, fe>>

\* ------------------------------------------------------------------ bounds
NumCommits == 3
MaxFetchHeads == 1
MaxRuns == 2
MaxEvents == 2
MaxEntries == 3

\* ------------------------------------------------------- the commit graph
Commits == 1..NumCommits
\* commit 1 is the root; 2 and 3 are divergent children of 1, and so on
Parent(c) == c \div 2

RECURSIVE IsAncestor(_, _)
\* a is c or an ancestor of c (0, the unborn branch, precedes everything)
IsAncestor(a, c) ==
    IF a = c THEN TRUE
    ELSE IF c = 0 THEN FALSE
    ELSE IsAncestor(a, Parent(c))

Ancestors(c) == {a \in Commits : IsAncestor(a, c)}

TreeOf(c) == c          \* every commit has its own tree; 0 is the empty tree
DriftTree == 0 - 1      \* a tree with local modifications
MergedTree == 0 - 2     \* what a merge writes: merged files, conflict markers

\* --------------------------------------------------------- process exits
\* exit(v), _exit(v) and main's return v: the status is v's low 8 bits
ExitStatus(v) == v % 256

ErrCodes == {0 - 1, 0 - 3}      \* error < 0 of a backend call
NoRet == 0 - 1000               \* still running

Ops == {"init", "opendir", "open", "remote", "fetch", "foreach", "resolve",
        "analysis", "merge", "reset", "cleanup", "clone", "shutdown", "fork",
        "system", "waitpid", "child:system", "child:waitpid"}
NoCalls == [op \in Ops |-> 0]
\* the run makes the call op
Call(op) == log' = Append(log, op) /\ calls' = [calls EXCEPT ![op] = @ + 1]
Count(op) == calls[op]

\* ---------------------------------------------------------- configuration
\* launcher.toml as main reads it: the file exists, it parses, it has the
\* platform's section, and the section has each of the three fields.  A file
\* that is missing does not parse, one that does not parse has no section, and
\* a missing section has no fields.
Configs ==
    {c \in [file : BOOLEAN, parse : BOOLEAN, platform : BOOLEAN,
            remote : BOOLEAN, target : BOOLEAN, exec : BOOLEAN] :
        /\ c.parse => c.file
        /\ c.platform => c.parse
        /\ (c.remote \/ c.target \/ c.exec) => c.platform}
NoConfig == [read |-> FALSE, file |-> FALSE, parse |-> FALSE, platform |-> FALSE,
             remote |-> FALSE, target |-> FALSE, exec |-> FALSE]
ReadConfig(c) == [read |-> TRUE, file |-> c.file, parse |-> c.parse,
                  platform |-> c.platform, remote |-> c.remote,
                  target |-> c.target, exec |-> c.exec]

\* the executable field is not looked at
ConfigFatal_NoExecCheck(c) ==
    ~c.file \/ ~c.parse \/ ~c.platform \/ ~c.remote \/ ~c.target

\* one of the checks of main's configuration block ends the process
ConfigFatal(c) ==
    ~c.file \/ ~c.parse \/ ~c.platform \/ ~c.remote \/ ~c.target \/ ~c.exec

\* 'return -1' when the file cannot be opened, exit(1) for everything else
ConfigExit(c) == IF ~c.file THEN ExitStatus(0 - 1) ELSE ExitStatus(1)

\* ------------------------------------------------------------ fetch heads
FetchHeadEntries == [oid : Commits, is_merge : BOOLEAN]
Upstreams == UNION {[1..n -> FetchHeadEntries] : n \in 0..MaxFetchHeads}

\* what 'git_oid oid' may hold before anything is copied into it
GarbageOids == 0..NumCommits

\* the oid is copied whether or not is_merge is set
fetchhead_cb_AnyEntry(e, payload) == e.oid

\* fetchhead_cb: copy the entry's oid into the payload when is_merge is set
fetchhead_cb(e, payload) == IF e.is_merge THEN e.oid ELSE payload

\* fetchhead_cb's 'return 0'
fetchhead_cb_result(e, payload) == 0

RECURSIVE FetchheadForeach(_, _)
\* git_repository_fetchhead_foreach: the callback on every entry, in order,
\* until it returns something other than 0
FetchheadForeach(entries, payload) ==
    IF entries = <<>> THEN payload
    ELSE IF fetchhead_cb_result(Head(entries), payload) # 0
         THEN fetchhead_cb(Head(entries), payload)
    ELSE FetchheadForeach(Tail(entries), fetchhead_cb(Head(entries), payload))

\* no enumeration is being followed
FeIdle == [entries |-> <<>>, pos |-> 0, init |-> 0, payload |-> 0, result |-> 0]

HasMerge(entries) == \E i \in DOMAIN entries : entries[i].is_merge

\* ---------------------------------------------------------------- backend
\* git_merge_analysis of the local HEAD h against the commit c
MergeAnalysis(h, c) ==
    IF h = 0 THEN {"UNBORN", "FASTFORWARD"}
    ELSE IF IsAncestor(c, h) THEN {"UP_TO_DATE"}
    ELSE IF IsAncestor(h, c) THEN {"NORMAL", "FASTFORWARD"}
    ELSE {"NORMAL"}

\* the wrong bit is tested
IsUpToDate_FastForward(a) == "FASTFORWARD" \in a

\* analysis & GIT_MERGE_ANALYSIS_UP_TO_DATE
IsUpToDate(a) == "UP_TO_DATE" \in a

\* a soft reset: only HEAD moves
ResetSoft(c, w, i) == [head |-> c, wt |-> w, index |-> i]

\* git_reset_from_annotated(repo, heads[0], GIT_RESET_HARD, NULL), succeeding
ResetHard(c, w, i) == [head |-> c, wt |-> TreeOf(c), index |-> TreeOf(c)]

\* both processes run the executable
RunsExecutable_Always(p) == TRUE

\* 'if (pid != 0)': the branch that calls system(executable_path)
RunsExecutable(p) == p # 0

\* wait statuses system(executable_path) may return: the program exited 0,
\* exited 1, could not be started (the shell exits 127), was killed by
\* signal 9, or no shell process could be created (-1)
SystemStatuses == {0, 256, 127 * 256, 9, 0 - 1}
SpawnFailed(st) == st = 127 * 256 \/ st = 0 - 1
ForkResults == {0 - 1, 1}     \* fork() in the original process: error or child's pid

\* ------------------------------------------------------------------ Init
NoPrev == [ended |-> FALSE, clean |-> FALSE, update |-> FALSE]

FirstPc(e) == IF e = "main" THEN "config" ELSE "init"

Init ==
    /\ entry \in {"main", "lib"}
    /\ run = 1
    /\ pc = FirstPc(entry)
    /\ ret = NoRet
    /\ dirState \in {"missing", "unreadable", "plain", "repo"}
    /\ IF dirState = "repo"
       THEN /\ head \in Commits
            /\ wt \in {TreeOf(head), DriftTree}
            /\ index \in {TreeOf(head), wt}
       ELSE head = 0 /\ wt = 0 /\ index = 0
    /\ odb = Ancestors(head)
    /\ upstream \in Upstreams
    /\ fetchhead = <<>>
    /\ oid = 0 /\ oidWritten = FALSE /\ commit = 0 /\ analysis = {}
    /\ handle = FALSE /\ cleanups = 0 /\ gitInit = 0
    /\ failed = {} /\ log = <<>> /\ calls = NoCalls
    /\ pid = 0 /\ cpc = "none" /\ cret = NoRet
    /\ start = [head |-> head, wt |-> wt, index |-> index, dir |-> dirState]
    /\ prev = NoPrev
    /\ cfg = NoConfig
    /\ cbAbort = FALSE
    /\ fe = FeIdle

\* ------------------------------------------------------- error branches
\* the error is reported and the run goes on to the end of the sync stage
Exit_LogOnly(step, e) ==
    /\ pc' = "shutdown"
    /\ ret' = ret
    /\ failed' = failed \cup {step}

\* main.c: 'exit(error)'
Exit(step, e) ==
    /\ pc' = "exited"
    /\ ret' = ExitStatus(e)
    /\ failed' = failed \cup {step}

\* the error falls through to the first-run branch
Return_FallThrough(step, e) ==
    /\ pc' = "clone"
    /\ ret' = ret
    /\ failed' = failed \cup {step}

\* launchpad.h: 'return error'
Return(step, e) ==
    /\ pc' = "returned"
    /\ ret' = e
    /\ failed' = failed \cup {step}

\* -------------------------------------------------------------- actions
\* main.c 89-139: read and validate launcher.toml
Config ==
    /\ pc = "config"
    /\ \E c \in Configs :
        /\ cfg' = ReadConfig(c)
        /\ IF ConfigFatal(c)
           THEN pc' = "exited" /\ ret' = ConfigExit(c)
           ELSE pc' = "init" /\ ret' = ret
    /\ UNCHANGED <<entry, run, upstream, start, prev, fe>>
    /\ UNCHANGED <<disk, git, child, handle, cleanups, gitInit, failed, log, calls>>

\* git_libgit2_init()
LibInit ==
    /\ pc = "init"
    /\ gitInit' = gitInit + 1
    /\ Call("init")
    /\ pc' = "opendir"
    /\ UNCHANGED <<hist, disk, git, child, ret, handle, cleanups, failed>>

\* only a path that does not exist counts as absent
OpendirSucceeds_UnlessMissing(d) == d # "missing"

\* 'if (dir)': opendir(target_path) returns a stream for a readable directory
\* and NULL for every failure (not found, permission denied, not a directory)
OpendirSucceeds(d) == d \in {"plain", "repo"}

\* opendir(target_path) and the branch on its result
OpenDir ==
    /\ pc = "opendir"
    /\ Call("opendir")
    /\ pc' = IF OpendirSucceeds(dirState) THEN "open" ELSE "clone"
    /\ UNCHANGED <<hist, disk, git, child, ret, handle, cleanups, gitInit, failed>>

\* git_repository_open(&repo, target_path)
RepoOpen ==
    /\ pc = "open"
    /\ Call("open")
    /\ \/ /\ dirState = "repo"
          /\ handle' = TRUE
          /\ pc' = "remote"
          /\ UNCHANGED <<ret, failed>>
       \/ /\ \E e \in ErrCodes :
                IF entry = "main" THEN Exit("open", e) ELSE Return("open", e)
          /\ UNCHANGED handle
    /\ UNCHANGED <<hist, disk, git, child, cleanups, gitInit>>

\* git_remote_create_anonymous(&remote, repo, remote_url)
RemoteCreate ==
    /\ pc = "remote"
    /\ Call("remote")
    /\ \/ /\ pc' = "fetch"
          /\ UNCHANGED <<ret, failed, handle, cleanups>>
       \/ \E e \in ErrCodes :
            IF entry = "main"
            THEN Exit("remote", e) /\ UNCHANGED <<handle, cleanups>>
            ELSE /\ Return("remote", e)
                 /\ handle' = FALSE
                 /\ cleanups' = cleanups + 1
    /\ UNCHANGED <<hist, disk, git, child, gitInit>>

\* -------------------------------------------------------- progress events
\* what the fetch hands to the three callbacks: a sideband chunk of len bytes,
\* transfer counters, and a ref whose tip moved from a (0: the zero id) to b
SidebandEvents == [kind : {"sideband"}, len : {0, 1}]
TransferEvents == [kind : {"transfer"}, received : {0, 1}, total : {0, 1}]
UpdateEvents == [kind : {"update"}, a : 0..NumCommits, b : Commits]
EventSeqs ==
    UNION {[1..n -> SidebandEvents \cup TransferEvents] : n \in 0..MaxEvents}

\* progress_cb: print the chunk, return 0
progress_cb(ev) == [ret |-> 0, out |-> "remote"]

\* update_cb: print "[new]" for a zero old id, "[updated]" otherwise, return 0
update_cb(ev) ==
    IF ev.a = 0 THEN [ret |-> 0, out |-> "new"] ELSE [ret |-> 0, out |-> "updated"]

\* an idle transfer is taken for an error
transfer_progress_cb_CancelsIdle(ev) ==
    IF ev.received = ev.total THEN [ret |-> 0, out |-> "deltas"]
    ELSE IF ev.total > 0 THEN [ret |-> 0, out |-> "received"]
    ELSE [ret |-> 0 - 1, out |-> "none"]

\* transfer_progress_cb: print one of two progress lines or nothing, return 0
transfer_progress_cb(ev) ==
    IF ev.received = ev.total THEN [ret |-> 0, out |-> "deltas"]
    ELSE IF ev.total > 0 THEN [ret |-> 0, out |-> "received"]
    ELSE [ret |-> 0, out |-> "none"]

\* fetch_opts.callbacks: which callback an event goes to
Callback(ev) ==
    IF ev.kind = "sideband" THEN progress_cb(ev)
    ELSE IF ev.kind = "transfer" THEN transfer_progress_cb(ev)
    ELSE update_cb(ev)

\* the fetch is cancelled when a callback returns something other than 0
Cancelled(evs) == \E i \in DOMAIN evs : Callback(evs[i]).ret # 0

\* update_tips is called once for every ref the fetch brings
TipEvents(heads, known, h) ==
    [i \in DOMAIN heads |->
        [kind |-> "update",
         a |-> IF heads[i].oid \in known THEN h ELSE 0,
         b |-> heads[i].oid]]

\* git_remote_fetch(remote, NULL, &fetch_opts, NULL); cancelled tells whether
\* a callback cancelled it
FetchOutcome(cancelled) ==
    /\ pc = "fetch"
    /\ Call("fetch")
    /\ cbAbort' = cancelled
    /\ \/ /\ ~cancelled
          /\ fetchhead' = upstream
          /\ odb' = odb \cup UNION {Ancestors(upstream[i].oid) : i \in DOMAIN upstream}
          /\ pc' = "foreach"
          /\ UNCHANGED <<ret, failed>>
       \/ /\ \E e \in ErrCodes :
                IF entry = "main" THEN Exit("fetch", e) ELSE Return("fetch", e)
          /\ UNCHANGED <<fetchhead, odb>>
    /\ UNCHANGED <<hist, dirState, head, wt, index, oid, oidWritten, commit,
                   analysis, child, handle, cleanups, gitInit>>

\* the fetch delivering the events evs to the callbacks
FetchStep(evs) == FetchOutcome(Cancelled(evs))

\* whether the sideband and transfer events of a fetch cancel it
ProgressCancels == {Cancelled(evs) : evs \in EventSeqs}

\* the fetch with the ref updates of the upstream and any progress events
Fetch ==
    /\ pc = "fetch"
    /\ \E c \in ProgressCancels :
          FetchOutcome(c \/ Cancelled(TipEvents(upstream, odb, head)))

\* git_repository_fetchhead_foreach(repo, fetchhead_cb, &oid); its result is
\* not looked at.  It visits the first n entries (all of them unless it fails)
\* and oid starts out uninitialized.
Foreach ==
    /\ pc = "foreach"
    /\ Call("foreach")
    /\ \E n \in 0..Len(fetchhead), g \in GarbageOids :
        LET seen == SubSeq(fetchhead, 1, n) IN
        /\ oid' = FetchheadForeach(seen, g)
        /\ oidWritten' = HasMerge(seen)
        /\ failed' = IF n < Len(fetchhead) THEN failed \cup {"foreach"} ELSE failed
    /\ pc' = "resolve"
    /\ UNCHANGED <<hist, disk, commit, analysis, cbAbort, child, ret, handle,
                   cleanups, gitInit>>

\* git_annotated_commit_from_fetchhead(&commit, repo, "main", remote_url, &oid)
Resolve ==
    /\ pc = "resolve"
    /\ Call("resolve")
    /\ \/ /\ oid \in odb
          /\ commit' = oid
          /\ pc' = "analysis"
          /\ UNCHANGED <<ret, failed>>
       \/ /\ \E e \in ErrCodes :
                IF entry = "main" THEN Exit("resolve", e) ELSE Return("resolve", e)
          /\ UNCHANGED commit
    /\ UNCHANGED <<hist, disk, oid, oidWritten, analysis, cbAbort, child, handle,
                   cleanups, gitInit>>

\* a failed analysis is only reported and the update is applied
Analyze_IgnoreError ==
    /\ pc = "analysis"
    /\ Call("analysis")
    /\ \/ /\ analysis' = MergeAnalysis(head, commit)
          /\ pc' = IF IsUpToDate(analysis') THEN "free" ELSE "merge"
          /\ UNCHANGED <<ret, failed>>
       \/ /\ failed' = failed \cup {"analysis"}
          /\ pc' = "merge"
          /\ UNCHANGED <<ret, analysis>>
    /\ UNCHANGED <<hist, disk, oid, oidWritten, commit, cbAbort, child, handle,
                   cleanups, gitInit>>

\* git_merge_analysis(&analysis, &preference, repo, heads, 1) and the test of
\* GIT_MERGE_ANALYSIS_UP_TO_DATE
Analyze ==
    /\ pc = "analysis"
    /\ Call("analysis")
    /\ \/ /\ analysis' = MergeAnalysis(head, commit)
          /\ pc' = IF IsUpToDate(analysis') THEN "free" ELSE "merge"
          /\ UNCHANGED <<ret, failed>>
       \/ /\ \E e \in ErrCodes :
                IF entry = "main" THEN Exit("analysis", e) ELSE Return("analysis", e)
          /\ UNCHANGED analysis
    /\ UNCHANGED <<hist, disk, oid, oidWritten, commit, cbAbort, child, handle,
                   cleanups, gitInit>>

\* both files only report a failed merge
Merge_NeverFatal ==
    /\ pc = "merge"
    /\ Call("merge")
    /\ \/ /\ \E t \in {TreeOf(commit), MergedTree} : wt' = t /\ index' = t
          /\ pc' = "reset"
          /\ UNCHANGED <<ret, failed>>
       \/ /\ UNCHANGED <<wt, index>>
          /\ pc' = "reset" /\ failed' = failed \cup {"merge"} /\ ret' = ret
    /\ UNCHANGED <<hist, dirState, head, odb, fetchhead, git, child, handle,
                   cleanups, gitInit>>

\* git_merge(repo, heads, 1, &merge_options, &checkout_options)
Merge ==
    /\ pc = "merge"
    /\ Call("merge")
    /\ \/ /\ \E t \in {TreeOf(commit), MergedTree} : wt' = t /\ index' = t
          /\ pc' = "reset"
          /\ UNCHANGED <<ret, failed>>
       \/ /\ UNCHANGED <<wt, index>>
          /\ IF entry = "main"
             THEN pc' = "reset" /\ failed' = failed \cup {"merge"} /\ ret' = ret
             ELSE \E e \in ErrCodes : Return("merge", e)
    /\ UNCHANGED <<hist, dirState, head, odb, fetchhead, git, child, handle,
                   cleanups, gitInit>>

\* git_reset_from_annotated(repo, heads[0], GIT_RESET_HARD, NULL)
Reset ==
    /\ pc = "reset"
    /\ Call("reset")
    /\ \/ /\ LET r == ResetHard(commit, wt, index) IN
                head' = r.head /\ wt' = r.wt /\ index' = r.index
          /\ pc' = "free"
          /\ UNCHANGED <<ret, failed>>
       \/ /\ UNCHANGED <<head, wt, index>>
          /\ IF entry = "main"
             THEN pc' = "free" /\ failed' = failed \cup {"reset"} /\ ret' = ret
             ELSE \E e \in ErrCodes : Return("reset", e)
    /\ UNCHANGED <<hist, dirState, odb, fetchhead, git, child, handle, cleanups,
                   gitInit>>

\* the update branch goes to the launch without shutting the library down
Cleanup_SkipShutdown ==
    /\ pc = "free"
    /\ Call("cleanup")
    /\ handle' = FALSE
    /\ cleanups' = cleanups + 1
    /\ commit' = 0 /\ oid' = 0 /\ analysis' = {}
    /\ pc' = IF entry = "main" THEN "fork" ELSE "shutdown"
    /\ UNCHANGED <<hist, disk, oidWritten, cbAbort, child, ret, gitInit, failed>>

\* git_annotated_commit_free(commit); git_repository_state_cleanup(repo); the
\* block ends, and with it the lifetime of oid and analysis
Cleanup ==
    /\ pc = "free"
    /\ Call("cleanup")
    /\ handle' = FALSE
    /\ cleanups' = cleanups + 1
    /\ commit' = 0 /\ oid' = 0 /\ analysis' = {}
    /\ pc' = "shutdown"
    /\ UNCHANGED <<hist, disk, oidWritten, cbAbort, child, ret, gitInit, failed>>

\* the tip a clone checks out: the remote's merge target, if it has one
CloneTip == FetchheadForeach(upstream, 0)

\* git_clone(&repo, remote_url, target_path, NULL); exit(error) in both files
Clone ==
    /\ pc = "clone"
    /\ Call("clone")
    /\ \/ /\ dirState = "missing"
          /\ dirState' = "repo"
          /\ head' = CloneTip
          /\ wt' = TreeOf(CloneTip)
          /\ index' = TreeOf(CloneTip)
          /\ odb' = Ancestors(CloneTip)
          /\ pc' = "shutdown"
          /\ UNCHANGED <<ret, failed>>
       \/ /\ \E e \in ErrCodes : Exit("clone", e)
          /\ UNCHANGED <<dirState, head, wt, index, odb>>
    /\ UNCHANGED <<hist, fetchhead, git, child, handle, cleanups, gitInit>>

\* git_libgit2_shutdown(); update_from_repo then returns 0
Shutdown ==
    /\ pc = "shutdown"
    /\ Call("shutdown")
    /\ gitInit' = gitInit - 1
    /\ IF entry = "main"
       THEN pc' = "fork" /\ ret' = ret
       ELSE pc' = "returned" /\ ret' = 0
    /\ UNCHANGED <<hist, disk, git, child, handle, cleanups, failed>>

\* pid_t pid = fork()
Fork ==
    /\ pc = "fork"
    /\ Call("fork")
    /\ \E r \in ForkResults :
        /\ pid' = r
        /\ cpc' = IF r > 0 THEN "forked" ELSE "none"
    /\ pc' = "branch"
    /\ UNCHANGED <<hist, disk, git, cret, ret, handle, cleanups, gitInit, failed>>

\* the original process after fork: pid holds fork's result
ParentLaunch ==
    /\ pc = "branch"
    /\ IF RunsExecutable(pid)
       THEN \E st \in SystemStatuses :
            /\ Call("system")
            /\ ret' = ExitStatus(st)
            /\ failed' = IF SpawnFailed(st) THEN failed \cup {"launch"} ELSE failed
       ELSE /\ Call("waitpid")
            /\ ret' = ExitStatus(0)
            /\ failed' = failed
    /\ pc' = "exited"
    /\ UNCHANGED <<hist, disk, git, child, handle, cleanups, gitInit>>

\* the forked process: it sees pid = 0
ChildLaunch ==
    /\ cpc = "forked"
    /\ IF RunsExecutable(0)
       THEN \E st \in SystemStatuses :
            /\ Call("child:system")
            /\ cret' = ExitStatus(st)
            /\ failed' = IF SpawnFailed(st) THEN failed \cup {"launch"} ELSE failed
       ELSE /\ Call("child:waitpid")
            /\ cret' = ExitStatus(0)
            /\ failed' = failed
    /\ cpc' = "exited"
    /\ UNCHANGED <<hist, disk, git, pid, pc, ret, handle, cleanups, gitInit>>

Ended == pc \in {"exited", "returned"} /\ cpc \in {"none", "exited"}

SyncSteps == {"open", "remote", "fetch", "foreach", "resolve", "analysis",
              "merge", "reset", "clone"}
\* no step of the sync stage failed, and the callback chose the commit
SyncClean == failed \cap SyncSteps = {} /\ (Count("resolve") > 0 => oidWritten)

\* the launcher is started again, or update_from_repo is called again
Restart ==
    /\ Ended
    /\ run < MaxRuns
    /\ run' = run + 1
    /\ prev' = [ended |-> TRUE,
                clean |-> SyncClean,
                update |-> Count("analysis") > 0]
    /\ start' = [head |-> head, wt |-> wt, index |-> index, dir |-> dirState]
    /\ pc' = FirstPc(entry)
    /\ ret' = NoRet
    /\ cfg' = NoConfig
    /\ oid' = 0 /\ oidWritten' = FALSE /\ commit' = 0 /\ analysis' = {}
    /\ cbAbort' = FALSE
    /\ handle' = FALSE /\ cleanups' = 0
    /\ gitInit' = IF pc = "returned" THEN gitInit ELSE 0
    /\ failed' = {} /\ log' = <<>> /\ calls' = NoCalls
    /\ pid' = 0 /\ cpc' = "none" /\ cret' = NoRet
    /\ UNCHANGED <<entry, upstream, disk, fe>>

\* ------------------------------------------- the enumeration on its own
FeInputs == UNION {[1..n -> FetchHeadEntries] : n \in 0..MaxEntries}

\* git_repository_fetchhead_foreach is about to run on a FETCH_HEAD with any
\* entries, with any bytes in the payload
InitFetchhead ==
    /\ fe \in [entries : FeInputs, pos : {0}, init : GarbageOids,
               payload : GarbageOids, result : {0}]
    /\ fe.payload = fe.init
    /\ entry = "lib" /\ run = 1 /\ pc = "foreach" /\ ret = NoRet
    /\ dirState = "repo" /\ head = 1 /\ wt = TreeOf(1) /\ index = TreeOf(1)
    /\ odb = Ancestors(1)
    /\ upstream = fe.entries /\ fetchhead = fe.entries
    /\ oid = fe.init /\ oidWritten = FALSE /\ commit = 0 /\ analysis = {}
    /\ handle = TRUE /\ cleanups = 0 /\ gitInit = 1
    /\ failed = {} /\ log = <<"init", "opendir", "open", "remote", "fetch">>
    /\ calls = [op \in Ops |-> IF op \in {"init", "opendir", "open", "remote", "fetch"}
                              THEN 1 ELSE 0]
    /\ pid = 0 /\ cpc = "none" /\ cret = NoRet
    /\ start = [head |-> head, wt |-> wt, index |-> index, dir |-> dirState]
    /\ prev = NoPrev /\ cfg = NoConfig /\ cbAbort = FALSE

\* one call of fetchhead_cb by the enumeration, on the next entry
FeCall ==
    /\ fe.pos < Len(fe.entries)
    /\ fe.result = 0
    /\ LET e == fe.entries[fe.pos + 1] IN
        /\ fe' = [fe EXCEPT !.pos = @ + 1,
                            !.payload = fetchhead_cb(e, fe.payload),
                            !.result = fetchhead_cb_result(e, fe.payload)]
        /\ oid' = fetchhead_cb(e, fe.payload)
        /\ oidWritten' = (oidWritten \/ e.is_merge)
    /\ UNCHANGED <<entry, run, pc, ret, disk, upstream, commit, analysis, handle,
                   cleanups, gitInit, failed, log, calls, child, start, prev, cfg,
                   cbAbort>>

NextFetchhead == FeCall

SpecFetchhead == InitFetchhead /\ [][NextFetchhead]_vars

Next ==
    \/ Config \/ LibInit \/ OpenDir \/ RepoOpen \/ RemoteCreate \/ Fetch
    \/ Foreach \/ Resolve \/ Analyze \/ Merge \/ Reset \/ Cleanup \/ Clone
    \/ Shutdown \/ Fork \/ ParentLaunch \/ ChildLaunch \/ Restart

Spec == Init /\ [][Next]_vars

\* ======================================================================
\* Claims
\* ======================================================================

ConfigInvalid ==
    ~(cfg.file /\ cfg.parse /\ cfg.platform /\ cfg.remote /\ cfg.target /\ cfg.exec)
Launches == Count("system") + Count("child:system")
ReachedLaunch == Count("fork") > 0

\* C1: fail-open launch.  A run of main() in which open, remote creation,
\* fetch, target resolution or merge analysis failed still reaches the launch
\* step: once the process has ended, fork has been called.
C1_FailOpenLaunch ==
    (entry = "main" /\ pc = "exited"
        /\ failed \cap {"open", "remote", "fetch", "resolve", "analysis"} # {})
    => ReachedLaunch

\* C2: handle release.  Once control has left the sync stage of a run that
\* opened the repository, the handle has had exactly one cleanup call.
C2_HandleReleasedOnce ==
    (Count("open") > 0 /\ "open" \notin failed
        /\ pc \in {"shutdown", "fork", "branch", "exited", "returned"})
    => (cleanups = 1 /\ ~handle)

\* C3: convergence regardless of local drift.  When the analysis is not
\* up-to-date and no step of the run has reported an error, then at the end of
\* the Apply step merge and hard reset have each run once, and HEAD, the
\* working tree and the index are those of the resolved target commit.
C3_Convergence ==
    (pc = "free" /\ failed = {} /\ ~IsUpToDate(analysis))
    => /\ Count("merge") = 1 /\ Count("reset") = 1
       /\ head = commit
       /\ wt = TreeOf(commit) /\ index = TreeOf(commit)

\* C3 witness: a locally modified tree was replaced by the target's tree
C3_Witness ==
    /\ pc = "free" /\ failed = {} /\ ~IsUpToDate(analysis)
    /\ start.wt = DriftTree /\ start.index = DriftTree
    /\ oidWritten /\ commit # start.head
    /\ wt = TreeOf(commit)

\* C4: end state independent of merge outcome.  Whenever the Apply step was
\* entered and has been left, the hard reset was performed after the merge
\* attempt, and (unless the reset itself reported an error) the tree is the
\* tree of the target commit the callback chose, whatever the merge did.
C4_ResetAfterAnyMerge ==
    (Count("merge") > 0 /\ pc \in {"free", "returned"} /\ oidWritten
        /\ "reset" \notin failed)
    => /\ Count("reset") = 1
       /\ wt = TreeOf(commit) /\ index = TreeOf(commit)

\* C5: idempotence of the update path.  When HEAD at the start of the run is
\* the resolved target commit, the analysis is up-to-date, neither merge nor
\* hard reset is invoked and HEAD, working tree and index are what they were
\* when the run started; and a run that follows an update run, both without a
\* failed sync step and on the merge target the callback chose, ends with the
\* tree the previous run left.
C5_Idempotence ==
    /\ (pc \in {"merge", "reset", "free"} /\ start.head = commit)
       => /\ pc = "free" /\ IsUpToDate(analysis)
          /\ Count("merge") = 0 /\ Count("reset") = 0
          /\ head = start.head /\ wt = start.wt /\ index = start.index
    /\ (run > 1 /\ prev.update /\ prev.clean /\ SyncClean /\ Count("analysis") > 0)
       => /\ Count("merge") = 0 /\ Count("reset") = 0
          /\ head = start.head /\ wt = start.wt /\ index = start.index

\* C5 witness: the second of two update runs on the same upstream has ended
C5_Witness ==
    /\ run = 2 /\ prev.update /\ prev.clean /\ SyncClean /\ oidWritten
    /\ Count("analysis") = 1 /\ Count("cleanup") = 1 /\ Ended
    /\ wt = start.wt /\ wt = TreeOf(head)

\* C6: config validation precedes sync.  When launcher.toml is missing,
\* unparsable, lacks the platform section or lacks one of the three fields,
\* the process has ended with a non-zero status, no backend call and no launch
\* was made, and the disk is untouched.
C6_ConfigBeforeSync ==
    (cfg.read /\ ConfigInvalid)
    => /\ pc = "exited" /\ ret # 0
       /\ log = <<>> /\ gitInit = 0 /\ cpc = "none"
       /\ head = start.head /\ wt = start.wt /\ index = start.index

\* C6 witness: only the executable field is missing
C6_Witness ==
    /\ cfg.read /\ cfg.remote /\ cfg.target /\ ~cfg.exec
    /\ pc = "exited" /\ ret = 1 /\ log = <<>>

\* C7: exit-code policy.  The launcher ends with a non-zero status only after
\* a configuration error: a run that got past configuration does not end with
\* a non-zero status before the launch step, and a run that reached the launch
\* step ends with status 0.
C7_ExitCodePolicy ==
    (entry = "main" /\ pc = "exited")
    => /\ (ret # 0 /\ ~ReachedLaunch) => ConfigInvalid
       /\ ReachedLaunch => ret = 0

\* C8: launch failure is fatal.  When system(executable_path) reports that the
\* executable could not be started, the launcher ends with a non-zero status.
C8_LaunchFailureFatal ==
    (entry = "main" /\ pc = "exited" /\ "launch" \in failed) => ret # 0

\* C9: exactly-once handoff.  fork and system(executable_path) are each called
\* at most once in a run, and when every process of a run that reached the
\* launch step has ended, each has been called exactly once, the original and
\* the forked process counted together, also when fork returned an error.
C9_ExactlyOnceHandoff ==
    /\ Launches <= 1
    /\ Count("fork") <= 1
    /\ (ReachedLaunch /\ Ended) => (Launches = 1 /\ Count("fork") = 1)

\* C9 witness: fork succeeded, both processes have ended
C9_Witness ==
    /\ ReachedLaunch /\ Ended /\ pid > 0 /\ cpc = "exited" /\ Launches = 1

\* C10: fork-detach roles.  After a successful fork the forked process runs the
\* executable, the original process waits and ends with status 0, and it does
\* not end before the forked process has started the executable.
C10_ForkDetachRoles ==
    (entry = "main" /\ pid > 0)
    => /\ Count("system") = 0
       /\ pc = "exited" => (Count("child:system") = 1 /\ Count("waitpid") = 1 /\ ret = 0)

\* C11: a failed clone is never launched.  When git_clone returned an error
\* the process has ended there, in main() and in update_from_repo(): no
\* shutdown, no fork, no system call follows and no process was forked.
C11_FailedCloneNotLaunched ==
    ("clone" \in failed)
    => /\ pc = "exited" /\ ret # 0
       /\ log[Len(log)] = "clone"
       /\ ~ReachedLaunch /\ Launches = 0 /\ cpc = "none"

\* C11 witness: main() on a missing target directory, the clone failed
C11_Witness ==
    /\ entry = "main" /\ dirState = "missing" /\ "clone" \in failed
    /\ pc = "exited" /\ Count("clone") = 1

\* C12: no merge target is an error.  When the enumeration copied no
\* merge-target id into oid, the resolve step fails and merge analysis, merge
\* and hard reset are not performed.
C12_NoMergeTargetIsError ==
    (Count("resolve") > 0 /\ ~oidWritten)
    => /\ "resolve" \in failed
       /\ Count("analysis") = 0 /\ Count("merge") = 0 /\ Count("reset") = 0

\* C13: an existing directory that is not a repository is not cloned over.
\* When git_repository_open failed the run has ended with the error, no
\* remote creation, fetch, merge, hard reset or clone was called, and the
\* directory is as it was.
C13_NonRepositoryUntouched ==
    ("open" \in failed)
    => /\ pc \in {"exited", "returned"} /\ ret # 0
       /\ log = <<"init", "opendir", "open">>
       /\ Count("clone") = 0 /\ Count("fetch") = 0
       /\ Count("merge") = 0 /\ Count("reset") = 0
       /\ head = start.head /\ wt = start.wt /\ index = start.index

\* C13 witness: update_from_repo() on a directory that holds no repository
C13_Witness ==
    /\ entry = "lib" /\ dirState = "plain" /\ "open" \in failed
    /\ pc = "returned" /\ ret < 0

\* C14: a failed sync leaves the tree unchanged.  When open, remote creation,
\* fetch, target resolution or merge analysis failed, neither merge nor hard
\* reset was called and HEAD, working tree and index are those the run
\* started with.
C14_FailedSyncKeepsTree ==
    (failed \cap {"open", "remote", "fetch", "resolve", "analysis"} # {})
    => /\ Count("merge") = 0 /\ Count("reset") = 0
       /\ head = start.head /\ wt = start.wt /\ index = start.index

\* C14 witness: the fetch failed on a locally modified tree
C14_Witness ==
    /\ "fetch" \in failed /\ start.wt = DriftTree /\ wt = DriftTree
    /\ pc \in {"exited", "returned"}

\* C15: the two entry points differ on a failed merge or hard reset.  main()
\* only reports it: the hard reset follows a failed merge, then cleanup,
\* shutdown and the launch.  update_from_repo() returns the error at once: no
\* hard reset after a failed merge, no cleanup and no shutdown after either.
C15_MergeResetPolicyDiffers ==
    /\ (entry = "main" /\ failed \cap {"merge", "reset"} # {})
       => /\ pc \in {"reset", "free", "shutdown", "fork", "branch", "exited"}
          /\ pc # "reset" => Count("reset") = 1
          /\ pc \in {"shutdown", "fork", "branch", "exited"} => Count("cleanup") = 1
          /\ pc = "exited" => (ReachedLaunch /\ Launches = 1)
    /\ (entry = "lib" /\ "merge" \in failed)
       => (pc = "returned" /\ ret < 0 /\ log[Len(log)] = "merge" /\ Count("reset") = 0)
    /\ (entry = "lib" /\ "reset" \in failed)
       => (pc = "returned" /\ ret < 0 /\ log[Len(log)] = "reset")

\* C15 witness: main() has launched after a failed merge and a failed reset
C15_Witness ==
    /\ entry = "main" /\ {"merge", "reset"} \subseteq failed
    /\ pc = "exited" /\ Count("reset") = 1 /\ Launches = 1

\* C16: branch selection.  Once opendir has been called, the run is in the
\* update branch exactly when the directory could be opened when the run
\* started: then git_repository_open is called and git_clone never is; and
\* for every cause of failure (missing or unreadable) git_clone is called and
\* git_repository_open never is.
C16_BranchSelection ==
    (Count("opendir") > 0)
    => /\ start.dir \in {"plain", "repo"}
          => /\ Count("clone") = 0
             /\ Count("open") = IF pc = "open" THEN 0 ELSE 1
       /\ start.dir \in {"missing", "unreadable"}
          => /\ Count("open") = 0 /\ Count("remote") = 0 /\ Count("fetch") = 0
             /\ Count("clone") = IF pc = "clone" THEN 0 ELSE 1

\* C16 witness: the directory exists but cannot be read, and git_clone was called
C16_Witness ==
    /\ start.dir = "unreadable" /\ Count("clone") = 1 /\ Count("open") = 0

\* position of a call in the pipeline
Rank(op) ==
    CASE op = "init" -> 0
      [] op = "opendir" -> 1
      [] op = "open" -> 2
      [] op = "remote" -> 3
      [] op = "fetch" -> 4
      [] op = "foreach" -> 5
      [] op = "resolve" -> 6
      [] op = "analysis" -> 7
      [] op = "merge" -> 8
      [] op = "reset" -> 9
      [] op = "cleanup" -> 10
      [] op = "clone" -> 10
      [] op = "shutdown" -> 11
      [] op = "fork" -> 12
      [] OTHER -> 13

After(op, before) == Count(op) > 0 => (Count(before) > 0 /\ before \notin failed)

\* C17: strict pipeline order without re-entry.  The calls of a run are made
\* in pipeline order, each at most once; remote creation, fetch, resolution,
\* analysis and merge are called only after the step before them succeeded;
\* and fork is called only after the sync stage has finished and the library
\* has been shut down.
C17_PipelineOrder ==
    /\ \A i \in 1..(Len(log) - 1) :
          Rank(log[i]) < Rank(log[i + 1]) \/ Rank(log[i]) = 13
    /\ Launches <= 1
    /\ After("remote", "open") /\ After("fetch", "remote")
    /\ After("resolve", "fetch") /\ After("analysis", "resolve")
    /\ After("merge", "analysis")
    /\ ReachedLaunch
       => /\ Count("shutdown") = 1 /\ gitInit = 0
          /\ Count("cleanup") + Count("clone") = 1
          /\ pc \in {"branch", "exited"}

\* C17 witness: a run of main() that merged, reset and launched
C17_Witness ==
    /\ entry = "main" /\ Ended /\ failed = {}
    /\ Count("merge") = 1 /\ Count("reset") = 1 /\ Launches = 1

\* C19: init/shutdown balance.  When update_from_repo() has returned, it has
\* called git_libgit2_shutdown once and no initialisation is outstanding.
C19_InitShutdownBalance ==
    (entry = "lib" /\ pc = "returned")
    => (Count("shutdown") = 1 /\ gitInit = 0)

\* C18: progress callbacks are pure observers.  No callback ever cancels a
\* fetch, and every step the fetch takes, whatever events were delivered to
\* the callbacks, is a step the fetch takes when no event is delivered.
C18_CallbacksObserveOnly ==
    [][(pc = "fetch" => FetchStep(<<>>)) /\ ~cbAbort']_vars

\* C18 witness: a fetch that delivered a ref update to update_cb has succeeded
C18_Witness ==
    /\ pc = "foreach" /\ "fetch" \notin failed /\ ~cbAbort
    /\ fetchhead # <<>> /\ fetchhead = upstream

\* the entries visited so far that have is_merge set
FeMerges == {i \in 1..fe.pos : fe.entries[i].is_merge}
FeLast(S) == CHOOSE i \in S : \A j \in S : j <= i

\* C20: merge-target selection.  During and after the enumeration the payload
\* is the id of the last visited entry with is_merge set, or still what it
\* was before when there is none; the callback has returned 0 every time, so
\* every entry gets visited; and the whole enumeration yields that payload.
C20_MergeTargetSelection ==
    /\ fe.result = 0
    /\ fe.payload = IF FeMerges = {} THEN fe.init ELSE fe.entries[FeLast(FeMerges)].oid
    /\ oid = fe.payload
    /\ fe.pos = Len(fe.entries) => fe.payload = FetchheadForeach(fe.entries, fe.init)

\* C20 witness: two merge targets with different ids, then an entry without
\* is_merge; the payload is the second one's id
C20_Witness ==
    /\ fe.pos = 3 /\ Len(fe.entries) = 3
    /\ fe.entries[1].is_merge /\ fe.entries[2].is_merge /\ ~fe.entries[3].is_merge
    /\ fe.entries[1].oid # fe.entries[2].oid /\ fe.entries[3].oid # fe.entries[2].oid
    /\ fe.payload = fe.entries[2].oid /\ fe.payload # fe.init

====
